---- MODULE Spec2Model ----
(***************************************************************************)
(* Model of tensorflow_probability/python/math/ode/runge_kutta_util.py:    *)
(* the weighted sum over structured states, the quartic interpolation fit  *)
(* and its evaluation, and the Butcher-tableau driven Runge-Kutta step.    *)
(*                                                                         *)
(* Numbers are exact rationals <<n, d>> in lowest terms with d > 0; the    *)
(* pair <<0, 0>> is the float NaN (the result of 0/0).  A tensor is a      *)
(* sequence of numbers (length 1 = scalar, broadcast against any length).  *)
(* A state is the flat list of the leaf tensors of a nest.  A weight is a  *)
(* tensor together with the flag telling whether tf.get_static_value       *)
(* yields its value (Python numbers, numpy arrays, eager tensors) or None  *)
(* (symbolic graph tensors).  Tableau weights are Python numbers.  The     *)
(* field c_mid and rk_fourth_order_interpolation_coefficients, which only  *)
(* feed the fit, are left out.                                             *)
(***************************************************************************)
EXTENDS Integers, Sequences, FiniteSets, TLC

\* ------------------------------------------------------------- bounds ----
MaxLen == 3        \* longest weight / state list handed to _weighted_sum
MaxStages == 2     \* longest a and b of a tableau

\* ---------------------------------------------------------- rationals ----
Abs(n) == IF n < 0 THEN -n ELSE n

RECURSIVE GCD(_, _)
GCD(m, n) == IF n = 0 THEN m ELSE GCD(n, m % n)

NaN == <<0, 0>>
IsNaN(r) == r[2] = 0

Norm(n, d) ==
  IF d = 0 THEN NaN
  ELSE LET g == GCD(Abs(n), Abs(d))
           s == IF d < 0 THEN -1 ELSE 1
       IN  <<(s * n) \div g, (s * d) \div g>>

Rat(n) == <<n, 1>>

RAdd(p, q) == IF IsNaN(p) \/ IsNaN(q) THEN NaN
              ELSE Norm(p[1] * q[2] + q[1] * p[2], p[2] * q[2])
RNeg(p) == <<-p[1], p[2]>>
RSub(p, q) == RAdd(p, RNeg(q))
RMul(p, q) == IF IsNaN(p) \/ IsNaN(q) THEN NaN
              ELSE Norm(p[1] * q[1], p[2] * q[2])
\* float division; the only zero divisor the code can meet is 0/0 = NaN
RDiv(p, q) == IF IsNaN(p) \/ IsNaN(q) \/ q[1] = 0 THEN NaN
              ELSE Norm(p[1] * q[2], p[2] * q[1])
\* comparisons with NaN are false
RLeq(p, q) == ~IsNaN(p) /\ ~IsNaN(q) /\ p[1] * q[2] <= q[1] * p[2]

\* ------------------------------------------------------------ tensors ----
Scalar(n) == <<Rat(n)>>
BLen(x, y) == IF Len(x) = 1 THEN Len(y) ELSE Len(x)
At(x, i) == IF Len(x) = 1 THEN x[1] ELSE x[i]
TMul(x, y) == [i \in 1..BLen(x, y) |-> RMul(At(x, i), At(y, i))]
TAdd(x, y) == [i \in 1..BLen(x, y) |-> RAdd(At(x, i), At(y, i))]

\* tf.add_n over a non-empty list of tensors
RECURSIVE add_n(_)
add_n(ts) == IF Len(ts) = 1 THEN ts[1]
             ELSE TAdd(add_n(SubSeq(ts, 1, Len(ts) - 1)), ts[Len(ts)])

\* a weight: the tensor v, and whether its value is statically known
Weight(v, static) == [v |-> v, static |-> static]
Py(n) == Weight(Scalar(n), TRUE)                    \* a Python number
PyList(ns) == [i \in 1..Len(ns) |-> Weight(<<ns[i]>>, TRUE)]

\* results of a call: a value, or the exception raised
Ok(v, nmul) == [status |-> "ok", value |-> v, nmul |-> nmul]
Raise(e, nmul) == [status |-> e, value |-> <<>>, nmul |-> nmul]

\* --------------------------------------------------- _possibly_nonzero ----
_possibly_nonzero(value) ==
  IF ~value.static THEN TRUE
  ELSE \A i \in 1..Len(value.v) : value.v[i] # Rat(0)

\* ------------------------------------------------------- _weighted_sum ----
\* indices i of the pairs (w, s) kept by `if _possibly_nonzero(w)`
RECURSIVE KeptUpTo(_, _)
KeptUpTo(weights, n) ==
  IF n = 0 THEN <<>>
  ELSE IF _possibly_nonzero(weights[n])
       THEN Append(KeptUpTo(weights, n - 1), n)
       ELSE KeptUpTo(weights, n - 1)

\* lines 72-79: the products of the kept pairs, summed leaf by leaf and
\* packed into the structure of list_of_states[0]
SumKept(weights, list_of_states) ==
  LET kept == KeptUpTo(weights, Len(weights))
      weighted_states ==
        [j \in 1..Len(kept) |->
          [c \in 1..Len(list_of_states[kept[j]]) |->
            TMul(weights[kept[j]].v, list_of_states[kept[j]][c])]]
      ncomp == IF Len(kept) = 0 THEN 0 ELSE Len(weighted_states[1])
      nmul == Len(kept) * ncomp
      flat_final_state ==
        [c \in 1..ncomp |->
          add_n([j \in 1..Len(kept) |-> weighted_states[j][c]])]
  IN  \* pack_sequence_as raises unless it is given one tensor per leaf
      IF Len(flat_final_state) # Len(list_of_states[1])
      THEN Raise("ValueError", nmul)
      ELSE Ok(flat_final_state, nmul)

\* a slip that lets zip() cut the longer list instead of checking the lengths
WeightedSumZipTruncates(weights, list_of_states) ==
  LET m == IF Len(weights) < Len(list_of_states)
           THEN Len(weights) ELSE Len(list_of_states)
  IN  IF Len(weights) = 0 THEN Raise("ValueError", 0)
      ELSE IF m = 0 THEN Raise("IndexError", 0)
      ELSE SumKept(SubSeq(weights, 1, m), SubSeq(list_of_states, 1, m))

_weighted_sum(weights, list_of_states) ==
  IF Len(weights) = 0 THEN Raise("ValueError", 0)
  ELSE IF Len(weights) # Len(list_of_states) THEN Raise("ValueError", 0)
  ELSE IF \E i \in 1..Len(list_of_states) :
            Len(list_of_states[i]) # Len(list_of_states[Len(list_of_states)])
       THEN Raise("ValueError", 0)
  ELSE SumKept(weights, list_of_states)

\* ---------------------------- _fourth_order_interpolation_coefficients ----
\* y0, y1, y_mid, f0, f1 are tensors; dt is a weight (a scalar and whether
\* its value is statically known)
Scale(n, dt) == Weight(TMul(Scalar(n), dt.v), dt.static)

\* a slip in one weight of b: 14 * y1 written as 16 * y1
FitWithWrongWeight(y0, y1, y_mid, f0, f1, dt) ==
  LET list_of_states == <<<<f0>>, <<f1>>, <<y0>>, <<y1>>, <<y_mid>>>>
      a == _weighted_sum(<<Scale(-2, dt), Scale(2, dt), Py(-8), Py(-8), Py(16)>>,
                         list_of_states)
      b == _weighted_sum(<<Scale(5, dt), Scale(-3, dt), Py(18), Py(16), Py(-32)>>,
                         list_of_states)
      c == _weighted_sum(<<Scale(-4, dt), dt, Py(-11), Py(-5), Py(16)>>,
                         list_of_states)
  IN  Ok(<<a.value[1], b.value[1], c.value[1], TMul(dt.v, f0), y0>>,
         a.nmul + b.nmul + c.nmul + 1)

_fourth_order_interpolation_coefficients(y0, y1, y_mid, f0, f1, dt) ==
  LET list_of_states == <<<<f0>>, <<f1>>, <<y0>>, <<y1>>, <<y_mid>>>>
      a == _weighted_sum(<<Scale(-2, dt), Scale(2, dt), Py(-8), Py(-8), Py(16)>>,
                         list_of_states)
      b == _weighted_sum(<<Scale(5, dt), Scale(-3, dt), Py(18), Py(14), Py(-32)>>,
                         list_of_states)
      c == _weighted_sum(<<Scale(-4, dt), dt, Py(-11), Py(-5), Py(16)>>,
                         list_of_states)
      d == TMul(dt.v, f0)
      e == y0
  IN  IF a.status # "ok" THEN a
      ELSE IF b.status # "ok" THEN b
      ELSE IF c.status # "ok" THEN c
      ELSE Ok(<<a.value[1], b.value[1], c.value[1], d, e>>,
              a.nmul + b.nmul + c.nmul + 1)

\* ---------------------------------------------- evaluate_interpolation ----
\* xs = [1, x]; for _ in range(2, n): xs.append(xs[-1] * x)
RECURSIVE Powers(_, _)
Powers(x, n) ==
  IF n <= 2 THEN <<Scalar(1), x>>
  ELSE LET xs == Powers(x, n - 1) IN Append(xs, TMul(xs[Len(xs)], x))

Reversed(s) == [i \in 1..Len(s) |-> s[Len(s) + 1 - i]]

\* a slip that drops the tf.Assert: a query outside [t0, t1] extrapolates
EvaluateWithoutAssert(coefficients, t0, t1, t) ==
  IF Len(coefficients) < 2 THEN Raise("ValueError", 0)
  ELSE LET x == <<RDiv(RSub(t, t0), RSub(t1, t0))>>
           rev == Reversed(Powers(x, Len(coefficients)))
       IN  _weighted_sum(coefficients, [i \in 1..Len(rev) |-> <<rev[i]>>])

\* coefficients are weights (tensors with their static flag); t0, t1, t are
\* numbers.  tf.Assert raises InvalidArgumentError when its condition is false.
evaluate_interpolation(coefficients, t0, t1, t) ==
  IF Len(coefficients) < 2 THEN Raise("ValueError", 0)
  ELSE IF ~(RLeq(t0, t) /\ RLeq(t, t1)) THEN Raise("InvalidArgumentError", 0)
  ELSE LET x == <<RDiv(RSub(t, t0), RSub(t1, t0))>>
           xs == Powers(x, Len(coefficients))
           rev == Reversed(xs)
       IN  _weighted_sum(coefficients, [i \in 1..Len(rev) |-> <<rev[i]>>])

\* ---------------------------------------------------- runge_kutta_step ----
\* the derivative callbacks the driver supplies
OdeFns == {"neg_y", "t_plus_y"}
ode_fn(fn, t, y) ==
  IF fn = "neg_y" THEN TMul(Scalar(-1), y) ELSE TAdd(<<t>>, y)

Min(m, n) == IF m < n THEN m ELSE n

\* a slip that tests only the last weight of c_sol
IsFSALByLastWeight(tableau) ==
  tableau.c_sol[Len(tableau.c_sol)] = Rat(0)

\* tableau.c_sol[-1] == 0 and tableau.c_sol[:-1] == tableau.b[-1]
IsFSAL(tableau) ==
  /\ tableau.c_sol[Len(tableau.c_sol)] = Rat(0)
  /\ SubSeq(tableau.c_sol, 1, Len(tableau.c_sol) - 1) = tableau.b[Len(tableau.b)]

\* a slip that evaluates every stage at the end of the step
StageTimeAtEnd(t0, alpha_i, dt) == RAdd(t0, dt)

\* ti = t0 + alpha_i * dt
StageTime(t0, alpha_i, dt) == RAdd(t0, RMul(alpha_i, dt))
\* y0 + dt_cast * <weighted sum>, the weighted sum being a one-leaf state
Advance(y0, dt, ws) == TAdd(y0, TMul(<<dt>>, ws[1]))

\* lines 219-226: the solution, the derivative at the end and the error
\* estimate, from the stages k and the last stage state yi of the loop
StepResult(y0, dt, tableau, k, yi) ==
  LET states == [j \in 1..Len(k) |-> <<k[j]>>]
      sol == _weighted_sum(PyList(tableau.c_sol), states)
      err == _weighted_sum(PyList(tableau.c_error), states)
  IN  IF ~IsFSAL(tableau) /\ sol.status # "ok" THEN sol
      ELSE IF err.status # "ok" THEN err
      ELSE Ok([y1 |-> IF IsFSAL(tableau) THEN yi ELSE Advance(y0, dt, sol.value),
               f1 |-> k[Len(k)],
               y1_error |-> TMul(<<dt>>, err.value[1]),
               k |-> k], 0)

\* ------------------------------------------------------------- inputs ----
Const(n, v) == [i \in 1..n |-> v]

\* _weighted_sum: weights that are Python numbers (zero or not) or symbolic
\* tensors, states with one or two leaves
WeightChoices == {Py(0), Py(1), Py(-2), Weight(Scalar(0), FALSE)}
StateChoices == {<<Scalar(1)>>, <<Scalar(3)>>, <<Scalar(1), <<Rat(2), Rat(-1)>>>>}
WeightLists == UNION {[1..n -> WeightChoices] : n \in 0..MaxLen}
StateLists == UNION {[1..n -> StateChoices] : n \in 0..MaxLen}

\* the interpolation fit: scalar and two-component tensors
FitShapes == {{Scalar(0), Scalar(1), Scalar(-1)},
              {<<Rat(0), Rat(1)>>, <<Rat(1), Rat(0)>>, <<Rat(1), Rat(2)>>}}
DtChoices == {Scalar(0), Scalar(1), Scalar(2)}

\* interpolation queries t0 <= t1 with t inside, on the border and outside
Half(n) == Norm(n, 2)
\* (in halves: <<t0, t1, t>> stands for t0/2, t1/2, t/2)
TimeChoices == {<<0, 2, t>> : t \in -1..3} \cup {<<0, 4, t>> : t \in -1..5}
                 \cup {<<2, 2, t>> : t \in 1..3} \cup {<<2, 4, t>> : t \in 1..5}

\* tableaus: a and b of 1..MaxStages rows each (equal or not), b[i] of
\* length i, c_sol and c_error of one common length
AValues == {Half(1), Rat(1)}
BValues == {Rat(0), Rat(1)}
BRows == UNION {[1..i -> BValues] : i \in 1..MaxStages}
BTables(nb) == {b \in [1..nb -> BRows] : \A i \in 1..nb : Len(b[i]) = i}
CSolChoices(b, cl) ==
  {Const(cl, Rat(1)), Const(cl, Rat(0)), Append(Const(cl - 1, Rat(1)), Rat(0))}
    \cup (IF cl = Len(b) + 1 THEN {Append(b[Len(b)], Rat(0))} ELSE {})
CErrorChoices(cl) ==
  {Const(cl, Rat(0)), Const(cl, Rat(1)), <<Rat(1)>> \o Const(cl - 1, Rat(0))}
Tableaus ==
  UNION {UNION {UNION {
    {[a |-> a, b |-> b, c_sol |-> cs, c_error |-> ce] :
        a \in [1..na -> AValues], cs \in CSolChoices(b, cl), ce \in CErrorChoices(cl)}
    : cl \in {na + 1, Len(b) + 1}} : b \in BTables(nb)}
    : na \in 1..MaxStages, nb \in 1..MaxStages}

ValidTableau(tableau) ==
  /\ Len(tableau.a) = Len(tableau.b)
  /\ \A i \in 1..Len(tableau.b) : Len(tableau.b[i]) = i
  /\ Len(tableau.c_sol) = Len(tableau.a) + 1
  /\ Len(tableau.c_error) = Len(tableau.a) + 1

Y0Choices == {Scalar(1), <<Rat(1), Rat(2)>>}
RKDtChoices == {Rat(2), Half(1)}
RKT0 == Rat(1)

\* -------------------------------------------------------------- state ----
VARIABLES
  pc,       \* "idle", "fitted", "rk_loop", "returned" or "raised"
  call,     \* the function being called and its arguments
  ret,      \* the result of the finished call
  fit,      \* the arguments and result of the interpolation fit in use
  k,        \* runge_kutta_step: the stage list
  yi,       \* runge_kutta_step: the last stage state
  invoked   \* runge_kutta_step: the (t, y) of each ode_fn invocation so far

vars == <<pc, call, ret, fit, k, yi, invoked>>

None == [op |-> "none"]

Init ==
  /\ pc = "idle"
  /\ call = None
  /\ ret = None
  /\ fit = None
  /\ k = <<>>
  /\ yi = <<>>
  /\ invoked = <<>>

Finish(r) ==
  /\ ret' = r
  /\ pc' = IF r.status = "ok" THEN "returned" ELSE "raised"

\* a call of _weighted_sum(weights, list_of_states)
WeightedSumCall ==
  /\ pc = "idle"
  /\ \E weights \in WeightLists, list_of_states \in StateLists :
       /\ call' = [op |-> "_weighted_sum", weights |-> weights,
                   list_of_states |-> list_of_states]
       /\ Finish(_weighted_sum(weights, list_of_states))
  /\ UNCHANGED <<fit, k, yi, invoked>>

\* a call of _fourth_order_interpolation_coefficients; eager tells whether
\* the tensors of this program carry static values
FitCall ==
  /\ pc = "idle"
  /\ \E shape \in FitShapes, dt \in DtChoices, eager \in BOOLEAN :
       \E y0 \in shape, y1 \in shape, y_mid \in shape, f0 \in shape, f1 \in shape :
         LET r == _fourth_order_interpolation_coefficients(
                      y0, y1, y_mid, f0, f1, Weight(dt, eager))
         IN  /\ fit' = [op |-> "_fourth_order_interpolation_coefficients",
                        y0 |-> y0, y1 |-> y1, y_mid |-> y_mid, f0 |-> f0,
                        f1 |-> f1, dt |-> dt, eager |-> eager,
                        status |-> r.status, coefficients |-> r.value]
             /\ ret' = r
             /\ pc' = IF r.status = "ok" THEN "fitted" ELSE "raised"
  /\ UNCHANGED <<call, k, yi, invoked>>

\* evaluate_interpolation on the coefficients of the fit
EvaluateFitted ==
  /\ pc = "fitted"
  /\ \E q \in TimeChoices :
       LET coefficients == [i \in 1..Len(fit.coefficients) |->
                              Weight(fit.coefficients[i], fit.eager)]
       IN  /\ call' = [op |-> "evaluate_interpolation",
                       coefficients |-> coefficients,
                       t0 |-> Half(q[1]), t1 |-> Half(q[2]), t |-> Half(q[3])]
           /\ Finish(evaluate_interpolation(coefficients,
                                            Half(q[1]), Half(q[2]), Half(q[3])))
  /\ UNCHANGED <<fit, k, yi, invoked>>

\* evaluate_interpolation on any coefficient list
EvaluateCall ==
  /\ pc = "idle"
  /\ \E coefficients \in WeightLists, q \in TimeChoices :
       /\ call' = [op |-> "evaluate_interpolation",
                   coefficients |-> coefficients,
                   t0 |-> Half(q[1]), t1 |-> Half(q[2]), t |-> Half(q[3])]
       /\ Finish(evaluate_interpolation(coefficients,
                                        Half(q[1]), Half(q[2]), Half(q[3])))
  /\ UNCHANGED <<fit, k, yi, invoked>>

\* runge_kutta_step up to the loop: k = [f0]
RKBegin ==
  /\ pc = "idle"
  /\ \E fn \in OdeFns, y0 \in Y0Choices, dt \in RKDtChoices, tableau \in Tableaus :
       /\ call' = [op |-> "runge_kutta_step", ode_fn |-> fn, y0 |-> y0,
                   f0 |-> ode_fn(fn, RKT0, y0), t0 |-> RKT0, dt |-> dt,
                   tableau |-> tableau]
       /\ k' = <<ode_fn(fn, RKT0, y0)>>
  /\ pc' = "rk_loop"
  /\ UNCHANGED <<ret, fit, yi, invoked>>

\* one iteration of `for alpha_i, beta_i in zip(tableau.a, tableau.b)`
RKStage ==
  /\ pc = "rk_loop"
  /\ Len(invoked) < Min(Len(call.tableau.a), Len(call.tableau.b))
  /\ LET i == Len(invoked) + 1
         ws == _weighted_sum(PyList(call.tableau.b[i]),
                             [j \in 1..Len(k) |-> <<k[j]>>])
         ti == StageTime(call.t0, call.tableau.a[i], call.dt)
         y == Advance(call.y0, call.dt, ws.value)
     IN  IF ws.status # "ok"
         THEN /\ Finish(ws)
              /\ UNCHANGED <<k, yi, invoked>>
         ELSE /\ yi' = y
              /\ invoked' = Append(invoked, [t |-> ti, y |-> y])
              /\ k' = Append(k, ode_fn(call.ode_fn, ti, y))
              /\ UNCHANGED <<pc, ret>>
  /\ UNCHANGED <<call, fit>>

\* the rest of runge_kutta_step, after the loop
RKFinish ==
  /\ pc = "rk_loop"
  /\ Len(invoked) = Min(Len(call.tableau.a), Len(call.tableau.b))
  /\ Finish(StepResult(call.y0, call.dt, call.tableau, k, yi))
  /\ UNCHANGED <<call, fit, k, yi, invoked>>

Next ==
  \/ WeightedSumCall
  \/ FitCall
  \/ EvaluateFitted
  \/ EvaluateCall
  \/ RKBegin
  \/ RKStage
  \/ RKFinish

Spec == Init /\ [][Next]_vars

\* ============================================================= claims ====
\* Reference sums, written without the model's operators for the code: the
\* plain sum over i <= n of ws[i] * states[i][c], no term elided.
RECURSIVE LeafSum(_, _, _, _)
LeafSum(ws, states, c, n) ==
  IF n = 1 THEN TMul(ws[1], states[1][c])
  ELSE TAdd(LeafSum(ws, states, c, n - 1), TMul(ws[n], states[n][c]))

\* the sum over j <= n of coef[j] * k[j], coef a list of numbers
RECURSIVE StageSum(_, _, _)
StageSum(coef, ks, n) ==
  IF n = 1 THEN TMul(<<coef[1]>>, ks[1])
  ELSE TAdd(StageSum(coef, ks, n - 1), TMul(<<coef[n]>>, ks[n]))

Done == pc \in {"returned", "raised"}
IsWeightedSumCall == Done /\ call.op = "_weighted_sum"
IsEvaluateCall == Done /\ call.op = "evaluate_interpolation"
IsStepCall == call.op = "runge_kutta_step"

SameStructure(list_of_states) ==
  \A i \in 1..Len(list_of_states) : Len(list_of_states[i]) = Len(list_of_states[1])
StaticZero(w) == w.static /\ w.v = Scalar(0)

\* C1: for every non-empty weight list and equal-length list of structurally
\* identical states, _weighted_sum returns a state of that structure whose
\* every leaf is the sum of weights[i] * states[i][leaf], whatever number of
\* the weights is statically zero (some or all).
C1_WeightedSumIsLinearCombination ==
  (/\ IsWeightedSumCall
   /\ Len(call.weights) > 0
   /\ Len(call.weights) = Len(call.list_of_states)
   /\ SameStructure(call.list_of_states))
  => /\ ret.status = "ok"
     /\ Len(ret.value) = Len(call.list_of_states[1])
     /\ \A c \in 1..Len(call.list_of_states[1]) :
          ret.value[c] = LeafSum([i \in 1..Len(call.weights) |-> call.weights[i].v],
                                 call.list_of_states, c, Len(call.weights))

\* C7: _weighted_sum raises ValueError and returns no state when the weight
\* list is empty, the state list is empty or the lengths differ, before any
\* product is formed.
C7_WeightedSumRejectsBadLengths ==
  (/\ IsWeightedSumCall
   /\ \/ Len(call.weights) = 0
      \/ Len(call.list_of_states) = 0
      \/ Len(call.weights) # Len(call.list_of_states))
  => /\ pc = "raised"
     /\ ret.status = "ValueError"
     /\ ret.value = <<>>
     /\ ret.nmul = 0

C7_Witness ==
  /\ IsWeightedSumCall
  /\ Len(call.weights) = 2
  /\ Len(call.list_of_states) = 3
  /\ pc = "raised"

\* ------------------------------------------------- runge_kutta_step ----
StepReturned == IsStepCall /\ pc = "returned"
AllZero(ws) == \A j \in 1..Len(ws) : ws[j] = Rat(0)

\* y0 + dt * (sum over j of coef[j] * k[j])
Increment(coef, ks) ==
  TAdd(call.y0, TMul(<<call.dt>>, StageSum(coef, ks, Len(ks))))

C4_StepReturnsErrorEstimate ==
  (/\ IsStepCall /\ Done /\ ValidTableau(call.tableau)
   /\ \A i \in 1..Len(call.tableau.b) : ~AllZero(call.tableau.b[i])
   /\ ~AllZero(call.tableau.c_sol))
  => /\ pc = "returned"
     /\ ret.value.y1_error =
          TMul(<<call.dt>>, StageSum(call.tableau.c_error, ret.value.k, Len(ret.value.k)))

\* C5: the f1 a step returns is ode_fn(t0 + dt, y1) for the y1 of the same
\* call, whatever the tableau.
C5_F1IsDerivativeAtY1 ==
  StepReturned
  => ret.value.f1 = ode_fn(call.ode_fn, RAdd(call.t0, call.dt), ret.value.y1)

\* C10: a tableau with len(a) # len(b) makes the step report an error; it
\* never returns a result from the first min(len(a), len(b)) stages.
C10_MismatchedTableauRejected ==
  (IsStepCall /\ Len(call.tableau.a) # Len(call.tableau.b)) => pc # "returned"

IsPrefix(s, t) == Len(s) <= Len(t) /\ SubSeq(t, 1, Len(s)) = s

\* the i-th invocation of ode_fn and the stage it produced
StageAsClaimed(i) ==
  /\ invoked[i].t = RAdd(call.t0, RMul(call.tableau.a[i], call.dt))
  /\ invoked[i].y = Increment(call.tableau.b[i], SubSeq(k, 1, i))
  /\ k[i + 1] = ode_fn(call.ode_fn, invoked[i].t, invoked[i].y)

StagesInv ==
  (IsStepCall /\ Len(call.tableau.a) = Len(call.tableau.b))
  => /\ Len(k) = Len(invoked) + 1
     /\ Len(invoked) <= Len(call.tableau.a)
     /\ k[1] = call.f0
     /\ \A i \in 1..Len(invoked) : StageAsClaimed(i)
     /\ pc = "returned" => /\ Len(invoked) = Len(call.tableau.a)
                           /\ ret.value.k = k

StagesStep ==
  (IsStepCall /\ k' # k)
  => /\ pc = "rk_loop"
     /\ IsPrefix(k, k')
     /\ Len(k') = Len(k) + 1
     /\ invoked' = Append(invoked, invoked'[Len(invoked')])
     /\ Len(invoked') = Len(k)

\* C9: in a step with len(a) = len(b), ode_fn is invoked len(a) times one
\* after another: invocation i comes when len(k) = i + 1, at time
\* t0 + a[i] * dt and state y0 + dt * sum_{j <= i} b[i][j] * k[j], and its
\* result is appended to k; k only grows, starts with f0 and is returned
\* with len(a) + 1 entries.
C9_StagesSequential == []StagesInv /\ [][StagesStep]_vars

C9_Witness ==
  /\ StepReturned
  /\ Len(call.tableau.a) = Len(call.tableau.b)
  /\ Len(invoked) = 2
  /\ invoked[1].y # invoked[2].y
  /\ invoked[1].t # invoked[2].t

\* ---------------------------------------------------- interpolation ----
\* p(x) and p'(x) of p = a x^4 + b x^3 + c x^2 + d x + e, cs = [a, b, c, d, e]
PolyAt(cs, x) ==
  TAdd(TMul(TAdd(TMul(TAdd(TMul(TAdd(TMul(cs[1], <<x>>), cs[2]), <<x>>), cs[3]),
                      <<x>>), cs[4]), <<x>>), cs[5])
DPolyAt(cs, x) ==
  TAdd(TMul(TAdd(TMul(TAdd(TMul(TMul(Scalar(4), cs[1]), <<x>>),
                           TMul(Scalar(3), cs[2])), <<x>>),
                 TMul(Scalar(2), cs[3])), <<x>>), cs[4])

Fitted == fit.op = "_fourth_order_interpolation_coefficients"

\* C6: for all y0, y1, y_mid, f0, f1 and dt (dt = 0 included) the fit
\* returns five coefficients [a, b, c, d, e] with p(0) = y0, p(1) = y1,
\* p(1/2) = y_mid, p'(0) = dt * f0 and p'(1) = dt * f1.
C6_FitConditions ==
  Fitted
  => /\ fit.status = "ok"
     /\ Len(fit.coefficients) = 5
     /\ PolyAt(fit.coefficients, Rat(0)) = fit.y0
     /\ PolyAt(fit.coefficients, Rat(1)) = fit.y1
     /\ PolyAt(fit.coefficients, Half(1)) = fit.y_mid
     /\ DPolyAt(fit.coefficients, Rat(0)) = TMul(fit.dt, fit.f0)
     /\ DPolyAt(fit.coefficients, Rat(1)) = TMul(fit.dt, fit.f1)

C6_Witness ==
  /\ Fitted
  /\ pc = "fitted"
  /\ fit.dt = Scalar(0)
  /\ Len(fit.y0) = 2
  /\ fit.y0 # fit.y1
  /\ fit.y_mid # fit.y1
  /\ fit.f0 # fit.f1

Midpoint(t0, t1) == RMul(Half(1), RAdd(t0, t1))

\* C3: the coefficients fitted to y0, y1, y_mid, f0, f1, dt, handed to
\* evaluate_interpolation with t0 < t1, give y0 at t0, y1 at t1 and y_mid at
\* (t0 + t1) / 2, for scalar and multi-component states, zero components
\* included.  Stated for the queries that return a value.
C3_RoundTrip ==
  (IsEvaluateCall /\ Fitted /\ call.t0 # call.t1 /\ pc = "returned")
  => /\ call.t = call.t0 => ret.value = <<fit.y0>>
     /\ call.t = call.t1 => ret.value = <<fit.y1>>
     /\ call.t = Midpoint(call.t0, call.t1) => ret.value = <<fit.y_mid>>

InInterval == RLeq(call.t0, call.t) /\ RLeq(call.t, call.t1)

\* C8: evaluate_interpolation returns a value only for at least 2
\* coefficients and t0 <= t <= t1: fewer than 2 coefficients raise
\* ValueError before anything is evaluated, t outside [t0, t1] fails the
\* assertion; no clamped or extrapolated value is ever returned.
C8_EvaluateRejectsBadQueries ==
  IsEvaluateCall
  => /\ Len(call.coefficients) < 2 => ret = Raise("ValueError", 0)
     /\ (Len(call.coefficients) >= 2 /\ ~InInterval)
          => ret = Raise("InvalidArgumentError", 0)
     /\ pc = "returned" => (Len(call.coefficients) >= 2 /\ InInterval)

C8_Witness ==
  /\ IsEvaluateCall
  /\ Len(call.coefficients) >= 2
  /\ \E i \in 1..Len(call.coefficients) : _possibly_nonzero(call.coefficients[i])
  /\ call.t0 = Rat(0) /\ call.t1 = Rat(1) /\ call.t = Half(3)
  /\ ret.status = "InvalidArgumentError"

====
